---- MODULE Spec2Model ----
(***************************************************************************)
(* Run-tracing client: the tracer core (BaseTracer: run registry,          *)
(* execution-order resolver, run lifecycle) and its two persistence        *)
(* adapters (the two LangChainTracer classes of the repository).           *)
(*                                                                         *)
(* Run records are JavaScript objects: a parent's child collections and    *)
(* the registry hold references to them.  The model keeps the objects in   *)
(* `heap` (a sequence, the index is the object's address, allocation       *)
(* order is start order) and references are addresses.                     *)
(*                                                                         *)
(* Every handler is an async function; Spec runs each call to completion   *)
(* before the next one is issued.  What the awaited collaborators          *)
(* (transport, hooks) answer is an input of the call.                      *)
(***************************************************************************)
EXTENDS Integers, Sequences, FiniteSets

(* ------------------------------ bounds ------------------------------- *)

\* Run objects ever started, and agent actions recorded, under SpecHook.
MaxHookRuns == 2
MaxHookActions == 1

\* Handler calls made, under SpecAsync.
MaxCalls == 3

\* Run objects ever started, under Spec.
MaxRuns == 2
\* Run objects ever started, under SpecTree.
MaxTreeRuns == 4
\* Run objects ever started, under SpecStore.
MaxStoreRuns == 2
\* Run objects ever started, under SpecAgent.
MaxAgentRuns == 2
\* Agent actions ever recorded (over all runs), under SpecAgent.
MaxActions == 2

(* --------------------------- value domains --------------------------- *)

\* Caller-supplied run identifiers (non-empty opaque strings).
RunIds == <<"A", "B", "C", "D", "E", "F">>
AllIds == {RunIds[i] : i \in 1..Len(RunIds)}
\* The identifiers an arbitrary caller draws from.
Ids == {"A", "B"}
\* JavaScript `undefined` where a string may stand.
Undefined == "undefined"
\* The address no object has: what Map.get answers for an absent key.
NULL == 0
\* `session === undefined`, for the numeric session ids of the legacy tracer.
NoSession == 0
\* Date.now(): every stamped instant is the same non-zero value.
DateNow == 1
RunTypes == {"llm", "chain", "tool"}
AgentActions == {"act1", "act2"}
\* What the hook of a call does once invoked (a slot left unregistered
\* behaves as a hook that returns at once).
HookOutcomes == {"returns", "throws"}
\* Answers of the store to GET /sessions?name=default.
SessionListResponses ==
    { [ok |-> FALSE, body |-> <<>>],
      [ok |-> TRUE,  body |-> <<>>],
      [ok |-> TRUE,  body |-> <<[id |-> 1]>>] }
\* Answers of the store to GET /tenants.
TenantResponses ==
    { [ok |-> FALSE, body |-> <<>>],
      [ok |-> TRUE,  body |-> <<>>],
      [ok |-> TRUE,  body |-> <<[id |-> "tenant1"]>>] }
\* Answers of the store to POST /sessions?upsert=true.
SessionUpsertResponses ==
    { [ok |-> FALSE, body |-> Undefined],
      [ok |-> TRUE,  body |-> "session1"] }
\* Answers of the store to POST /runs (or /llm-runs, /chain-runs, /tool-runs).
RunResponses == { [ok |-> FALSE], [ok |-> TRUE] }

(* ------------------------------- state ------------------------------- *)

VARIABLES
    heap,         \* the Run objects, by address
    runMap,       \* BaseTracer.runMap: run id -> address (NULL: no entry)
    session,      \* BaseTracer.session: id of the default session, or NoSession
    tracerClass,  \* which LangChainTracer was constructed: "legacy" or "v2"
    tenantId,     \* v2 LangChainTracer.tenantId
    exampleId,    \* v2 LangChainTracer.exampleId
    sessionV2,    \* v2 LangChainTracer.session: id of the upserted session
    lastOp,       \* outcome of the latest call
    started,      \* per address: the parent object at start, and whether
                  \* every earlier sibling had closed by then
    closed,       \* addresses _endTrace has removed from runMap
    calls         \* the handler calls made one by one while others are
                  \* suspended at an await, each with the point it is at

vars == <<heap, runMap, session, tracerClass, tenantId, exampleId, sessionV2,
          lastOp, started, closed, calls>>

Addrs == 1..Len(heap)

Max(a, b) == IF a >= b THEN a ELSE b


(* ------------------------- BaseTracer helpers ------------------------ *)

\* The children of a run, over its three child collections.
ChildRuns(h, a) ==
    h[a].child_llm_runs \o h[a].child_chain_runs \o h[a].child_tool_runs

\* _addChildRun that files no tool run.
_addChildRun_DropsToolRuns(h, parentRun, childRun, type) ==
    IF type = "llm"
    THEN [h EXCEPT ![parentRun].child_llm_runs = Append(@, childRun)]
    ELSE IF type = "chain"
    THEN [h EXCEPT ![parentRun].child_chain_runs = Append(@, childRun)]
    ELSE h

\* _addChildRun(parentRun, childRun) on heap h: the child is pushed on the
\* collection of its type.
_addChildRun(h, parentRun, childRun, type) ==
    IF type = "llm"
    THEN [h EXCEPT ![parentRun].child_llm_runs = Append(@, childRun)]
    ELSE IF type = "chain"
    THEN [h EXCEPT ![parentRun].child_chain_runs = Append(@, childRun)]
    ELSE [h EXCEPT ![parentRun].child_tool_runs = Append(@, childRun)]

\* _getExecutionOrder counting from the parent's own order instead of its
\* child execution order.
_getExecutionOrder_FromParentOrder(parentRunId) ==
    IF parentRunId = Undefined
    THEN [error |-> "none", order |-> 1]
    ELSE IF runMap[parentRunId] = NULL
    THEN [error |-> "ParentNotFound", order |-> 0]
    ELSE [error |-> "none",
          order |-> heap[runMap[parentRunId]].execution_order + 1]

\* Outcome of _getExecutionOrder: the order, or the error thrown.
_getExecutionOrder(parentRunId) ==
    IF parentRunId = Undefined
    THEN [error |-> "none", order |-> 1]
    ELSE IF runMap[parentRunId] = NULL
    THEN [error |-> "ParentNotFound", order |-> 0]
    ELSE [error |-> "none",
          order |-> heap[runMap[parentRunId]].child_execution_order + 1]

\* The run record the start handlers construct.
NewRun(type, runId, parentRunId, execution_order, session_id) ==
    [ uuid                  |-> runId,
      parent_uuid           |-> parentRunId,
      end_time              |-> 0,
      session_id            |-> session_id,
      execution_order       |-> execution_order,
      child_execution_order |-> execution_order,
      type                  |-> type,
      output                |-> Undefined,
      error                 |-> Undefined,
      child_llm_runs        |-> <<>>,
      child_chain_runs      |-> <<>>,
      child_tool_runs       |-> <<>>,
      actions               |-> <<>> ]

\* _startTrace as another call would see it if an await stood between the
\* registry insert and the child append: the run is registered, and not yet
\* in its parent's collection.
_startTrace_RegistersBeforeAppend(run) ==
    LET addr == Len(heap) + 1
        h0   == Append(heap, run)
        ins  == [runMap EXCEPT ![run.uuid] = addr]
    IN  IF run.parent_uuid # Undefined
        THEN LET parentRun == runMap[run.parent_uuid] IN
             IF parentRun # NULL
             THEN IF ~(heap[parentRun].type = "tool" \/ heap[parentRun].type = "chain")
                  THEN [error |-> "InvalidParentKind", heap |-> heap, runMap |-> runMap]
                  ELSE [error |-> "none", heap |-> h0, runMap |-> ins]
             ELSE [error |-> "ParentNotFound", heap |-> heap, runMap |-> runMap]
        ELSE [error |-> "none", heap |-> h0, runMap |-> ins]

\* _startTrace without the check of the parent's type.
_startTrace_AnyParentKind(run) ==
    LET addr == Len(heap) + 1
        h0   == Append(heap, run)
        ins  == [runMap EXCEPT ![run.uuid] = addr]
    IN  IF run.parent_uuid # Undefined
        THEN LET parentRun == runMap[run.parent_uuid] IN
             IF parentRun # NULL
             THEN [error |-> "none",
                   heap |-> _addChildRun(h0, parentRun, addr, run.type),
                   runMap |-> ins]
             ELSE [error |-> "ParentNotFound", heap |-> heap, runMap |-> runMap]
        ELSE [error |-> "none", heap |-> h0, runMap |-> ins]

\* Outcome of _startTrace(run) for a run allocated at the next address:
\* the error thrown, or the heap and registry after it.
_startTrace(run) ==
    LET addr == Len(heap) + 1
        h0   == Append(heap, run)
        ins  == [runMap EXCEPT ![run.uuid] = addr]
    IN  IF run.parent_uuid # Undefined
        THEN LET parentRun == runMap[run.parent_uuid] IN
             IF parentRun # NULL
             THEN IF ~(heap[parentRun].type = "tool" \/ heap[parentRun].type = "chain")
                  THEN [error |-> "InvalidParentKind", heap |-> heap, runMap |-> runMap]
                  ELSE [error |-> "none",
                        heap |-> _addChildRun(h0, parentRun, addr, run.type),
                        runMap |-> ins]
             ELSE [error |-> "ParentNotFound", heap |-> heap, runMap |-> runMap]
        ELSE [error |-> "none", heap |-> h0, runMap |-> ins]

\* loadDefaultSession / _handleSessionResponse: the session id it caches.
loadDefaultSession(response) ==
    IF ~response.ok THEN 1
    ELSE IF Len(response.body) = 0 THEN 1
    ELSE response.body[1].id

(* ----------------- legacy LangChainTracer (index.ts) ------------------ *)

\* JSON.stringify(run): the run with its nested child collections.
RECURSIVE Serialize(_, _)
Serialize(h, a) ==
    [ ref                   |-> a,
      uuid                  |-> h[a].uuid,
      parent_uuid           |-> h[a].parent_uuid,
      type                  |-> h[a].type,
      end_time              |-> h[a].end_time,
      execution_order       |-> h[a].execution_order,
      child_execution_order |-> h[a].child_execution_order,
      output                |-> h[a].output,
      error                 |-> h[a].error,
      child_llm_runs        |->
          [i \in 1..Len(h[a].child_llm_runs) |-> Serialize(h, h[a].child_llm_runs[i])],
      child_chain_runs      |->
          [i \in 1..Len(h[a].child_chain_runs) |-> Serialize(h, h[a].child_chain_runs[i])],
      child_tool_runs       |->
          [i \in 1..Len(h[a].child_tool_runs) |-> Serialize(h, h[a].child_tool_runs[i])] ]

\* Legacy persistRun: one POST to the endpoint of the run's type; a
\* non-success answer is logged and not thrown.
persistRunLegacy(h, run, response) ==
    LET endpoint == IF h[run].type = "llm" THEN "/llm-runs"
                    ELSE IF h[run].type = "chain" THEN "/chain-runs"
                    ELSE "/tool-runs"
    IN  [ error     |-> "none",
          requests  |-> << [endpoint |-> endpoint, body |-> Serialize(h, run)] >>,
          tenantId  |-> tenantId,
          sessionV2 |-> sessionV2 ]

(* ------------------- v2 LangChainTracer (part_000) ------------------- *)

\* ensureTenantId that settles for a default tenant when the store lists none.
ensureTenantId_DefaultsWhenNone(response) ==
    IF tenantId # Undefined
    THEN [error |-> "none", tenantId |-> tenantId, requests |-> <<>>]
    ELSE LET req == << [endpoint |-> "/tenants", body |-> Undefined] >> IN
         IF ~response.ok
         THEN [error |-> "TransportFailure", tenantId |-> tenantId, requests |-> req]
         ELSE IF Len(response.body) = 0
         THEN [error |-> "none", tenantId |-> "default", requests |-> req]
         ELSE [error |-> "none", tenantId |-> response.body[1].id, requests |-> req]

\* ensureTenantId: the configured or cached tenant, else the first tenant
\* the store lists.
ensureTenantId(response) ==
    IF tenantId # Undefined
    THEN [error |-> "none", tenantId |-> tenantId, requests |-> <<>>]
    ELSE LET req == << [endpoint |-> "/tenants", body |-> Undefined] >> IN
         IF ~response.ok
         THEN [error |-> "TransportFailure", tenantId |-> tenantId, requests |-> req]
         ELSE IF Len(response.body) = 0
         THEN [error |-> "NoTenantAvailable", tenantId |-> tenantId, requests |-> req]
         ELSE [error |-> "none", tenantId |-> response.body[1].id, requests |-> req]

\* ensureSession: the cached session, else the session upserted for the tenant.
ensureSession(tenants, upsert) ==
    IF sessionV2 # Undefined
    THEN [error |-> "none", session |-> sessionV2, tenantId |-> tenantId,
          requests |-> <<>>]
    ELSE LET t == ensureTenantId(tenants) IN
         IF t.error # "none"
         THEN [error |-> t.error, session |-> sessionV2, tenantId |-> t.tenantId,
               requests |-> t.requests]
         ELSE LET req == t.requests \o
                         << [endpoint |-> "/sessions?upsert=true",
                             body |-> [tenant_id |-> t.tenantId]] >>
              IN  IF ~upsert.ok
                  THEN [error |-> "TransportFailure", session |-> sessionV2,
                        tenantId |-> t.tenantId, requests |-> req]
                  ELSE [error |-> "none", session |-> upsert.body,
                        tenantId |-> t.tenantId, requests |-> req]

\* _convertToCreate that hands its example_id on to the children.
RECURSIVE _convertToCreate_ExampleIdForAll(_, _, _, _)
_convertToCreate_ExampleIdForAll(h, run, example_id, session_id) ==
    [ ref                  |-> run,
      id                   |-> h[run].uuid,
      run_type             |-> h[run].type,
      end_time             |-> h[run].end_time,
      reference_example_id |-> example_id,
      execution_order      |-> h[run].execution_order,
      error                |-> h[run].error,
      outputs              |-> IF h[run].output = Undefined THEN "{}" ELSE h[run].output,
      session_id           |-> session_id,
      child_runs           |->
          [i \in 1..Len(ChildRuns(h, run)) |->
              _convertToCreate_ExampleIdForAll(h, ChildRuns(h, run)[i],
                                               example_id, session_id)] ]

\* _convertToCreate once the session is known: children are converted
\* with the default example_id.
RECURSIVE _convertToCreate(_, _, _, _)
_convertToCreate(h, run, example_id, session_id) ==
    [ ref                  |-> run,
      id                   |-> h[run].uuid,
      run_type             |-> h[run].type,
      end_time             |-> h[run].end_time,
      reference_example_id |-> example_id,
      execution_order      |-> h[run].execution_order,
      error                |-> h[run].error,
      outputs              |-> IF h[run].output = Undefined THEN "{}" ELSE h[run].output,
      session_id           |-> session_id,
      child_runs           |->
          [i \in 1..Len(ChildRuns(h, run)) |->
              _convertToCreate(h, ChildRuns(h, run)[i], Undefined, session_id)] ]

\* v2 persistRun: convert (resolving the session first), then POST /runs;
\* a non-success answer is thrown.
persistRunV2(h, run, tenants, upsert, response) ==
    LET s == ensureSession(tenants, upsert) IN
    IF s.error # "none"
    THEN [error |-> s.error, requests |-> s.requests,
          tenantId |-> s.tenantId, sessionV2 |-> sessionV2]
    ELSE [ error     |-> IF response.ok THEN "none" ELSE "TransportFailure",
           requests  |-> s.requests \o
                         << [endpoint |-> "/runs",
                             body |-> _convertToCreate(h, run, exampleId, s.session)] >>,
           tenantId  |-> s.tenantId,
           sessionV2 |-> s.session ]

\* The persistRun of the constructed tracer class.
persistRun(h, run, tenants, upsert, response) ==
    IF tracerClass = "legacy"
    THEN persistRunLegacy(h, run, response)
    ELSE persistRunV2(h, run, tenants, upsert, response)

RunEndpoints == {"/runs", "/llm-runs", "/chain-runs", "/tool-runs"}

\* The submissions among the requests of a call.
Submissions(requests) ==
    SelectSeq(requests, LAMBDA r : r.endpoint \in RunEndpoints)

(* --------------------------- run lifecycle --------------------------- *)

\* _endTrace that raises the parent's child execution order to the closing
\* run's own execution order only.
_endTrace_PropagatesOwnOrder(h, run, tenants, upsert, response) ==
    IF h[run].parent_uuid = Undefined
    THEN LET p == persistRun(h, run, tenants, upsert, response) IN
         [ error     |-> p.error,
           heap      |-> h,
           runMap    |-> IF p.error = "none"
                         THEN [runMap EXCEPT ![h[run].uuid] = NULL]
                         ELSE runMap,
           persisted |-> <<run>>,
           requests  |-> p.requests,
           tenantId  |-> p.tenantId,
           sessionV2 |-> p.sessionV2 ]
    ELSE LET parentRun == runMap[h[run].parent_uuid] IN
         IF parentRun = NULL
         THEN [ error |-> "ParentNotFound", heap |-> h, runMap |-> runMap,
                persisted |-> <<>>, requests |-> <<>>,
                tenantId |-> tenantId, sessionV2 |-> sessionV2 ]
         ELSE [ error     |-> "none",
                heap      |-> [h EXCEPT ![parentRun].child_execution_order =
                                  Max(@, h[run].execution_order)],
                runMap    |-> [runMap EXCEPT ![h[run].uuid] = NULL],
                persisted |-> <<>>,
                requests  |-> <<>>,
                tenantId  |-> tenantId,
                sessionV2 |-> sessionV2 ]

\* _endTrace that overwrites the parent's child execution order with the
\* closing run's.
_endTrace_OverwritesFrontier(h, run, tenants, upsert, response) ==
    IF h[run].parent_uuid = Undefined
    THEN LET p == persistRun(h, run, tenants, upsert, response) IN
         [ error     |-> p.error,
           heap      |-> h,
           runMap    |-> IF p.error = "none"
                         THEN [runMap EXCEPT ![h[run].uuid] = NULL]
                         ELSE runMap,
           persisted |-> <<run>>,
           requests  |-> p.requests,
           tenantId  |-> p.tenantId,
           sessionV2 |-> p.sessionV2 ]
    ELSE LET parentRun == runMap[h[run].parent_uuid] IN
         IF parentRun = NULL
         THEN [ error |-> "ParentNotFound", heap |-> h, runMap |-> runMap,
                persisted |-> <<>>, requests |-> <<>>,
                tenantId |-> tenantId, sessionV2 |-> sessionV2 ]
         ELSE [ error     |-> "none",
                heap      |-> [h EXCEPT ![parentRun].child_execution_order =
                                  h[run].child_execution_order],
                runMap    |-> [runMap EXCEPT ![h[run].uuid] = NULL],
                persisted |-> <<>>,
                requests  |-> <<>>,
                tenantId  |-> tenantId,
                sessionV2 |-> sessionV2 ]

\* _endTrace that leaves a persisted root in the registry.
_endTrace_KeepsRoot(h, run, tenants, upsert, response) ==
    IF h[run].parent_uuid = Undefined
    THEN LET p == persistRun(h, run, tenants, upsert, response) IN
         [ error     |-> p.error,
           heap      |-> h,
           runMap    |-> runMap,
           persisted |-> <<run>>,
           requests  |-> p.requests,
           tenantId  |-> p.tenantId,
           sessionV2 |-> p.sessionV2 ]
    ELSE LET parentRun == runMap[h[run].parent_uuid] IN
         IF parentRun = NULL
         THEN [ error |-> "ParentNotFound", heap |-> h, runMap |-> runMap,
                persisted |-> <<>>, requests |-> <<>>,
                tenantId |-> tenantId, sessionV2 |-> sessionV2 ]
         ELSE [ error     |-> "none",
                heap      |-> [h EXCEPT ![parentRun].child_execution_order =
                                  Max(@, h[run].child_execution_order)],
                runMap    |-> [runMap EXCEPT ![h[run].uuid] = NULL],
                persisted |-> <<>>,
                requests  |-> <<>>,
                tenantId  |-> tenantId,
                sessionV2 |-> sessionV2 ]

\* _endTrace that persists every run it closes, root or not.
_endTrace_PersistsEachRun(h, run, tenants, upsert, response) ==
    LET p == persistRun(h, run, tenants, upsert, response) IN
    IF h[run].parent_uuid = Undefined
    THEN [ error     |-> p.error,
           heap      |-> h,
           runMap    |-> IF p.error = "none"
                         THEN [runMap EXCEPT ![h[run].uuid] = NULL]
                         ELSE runMap,
           persisted |-> <<run>>,
           requests  |-> p.requests,
           tenantId  |-> p.tenantId,
           sessionV2 |-> p.sessionV2 ]
    ELSE LET parentRun == runMap[h[run].parent_uuid] IN
         IF parentRun = NULL
         THEN [ error |-> "ParentNotFound", heap |-> h, runMap |-> runMap,
                persisted |-> <<>>, requests |-> <<>>,
                tenantId |-> tenantId, sessionV2 |-> sessionV2 ]
         ELSE [ error     |-> p.error,
                heap      |-> [h EXCEPT ![parentRun].child_execution_order =
                                  Max(@, h[run].child_execution_order)],
                runMap    |-> [runMap EXCEPT ![h[run].uuid] = NULL],
                persisted |-> <<run>>,
                requests  |-> p.requests,
                tenantId  |-> p.tenantId,
                sessionV2 |-> p.sessionV2 ]

\* _endTrace that does not raise the parent's child execution order.
_endTrace_NoPropagation(h, run, tenants, upsert, response) ==
    IF h[run].parent_uuid = Undefined
    THEN LET p == persistRun(h, run, tenants, upsert, response) IN
         [ error     |-> p.error,
           heap      |-> h,
           runMap    |-> IF p.error = "none"
                         THEN [runMap EXCEPT ![h[run].uuid] = NULL]
                         ELSE runMap,
           persisted |-> <<run>>,
           requests  |-> p.requests,
           tenantId  |-> p.tenantId,
           sessionV2 |-> p.sessionV2 ]
    ELSE LET parentRun == runMap[h[run].parent_uuid] IN
         IF parentRun = NULL
         THEN [ error |-> "ParentNotFound", heap |-> h, runMap |-> runMap,
                persisted |-> <<>>, requests |-> <<>>,
                tenantId |-> tenantId, sessionV2 |-> sessionV2 ]
         ELSE [ error     |-> "none",
                heap      |-> h,
                runMap    |-> [runMap EXCEPT ![h[run].uuid] = NULL],
                persisted |-> <<>>,
                requests  |-> <<>>,
                tenantId  |-> tenantId,
                sessionV2 |-> sessionV2 ]

\* Outcome of _endTrace(run) on heap h: the error thrown (nothing after the
\* throw is executed), or the heap and registry after it; `persisted` lists
\* the runs handed to persistRun.  Run identifiers are non-empty, so
\* `!run.parent_uuid` is `parent_uuid === undefined`.
_endTrace(h, run, tenants, upsert, response) ==
    IF h[run].parent_uuid = Undefined
    THEN LET p == persistRun(h, run, tenants, upsert, response) IN
         [ error     |-> p.error,
           heap      |-> h,
           runMap    |-> IF p.error = "none"
                         THEN [runMap EXCEPT ![h[run].uuid] = NULL]
                         ELSE runMap,
           persisted |-> <<run>>,
           requests  |-> p.requests,
           tenantId  |-> p.tenantId,
           sessionV2 |-> p.sessionV2 ]
    ELSE LET parentRun == runMap[h[run].parent_uuid] IN
         IF parentRun = NULL
         THEN [ error |-> "ParentNotFound", heap |-> h, runMap |-> runMap,
                persisted |-> <<>>, requests |-> <<>>,
                tenantId |-> tenantId, sessionV2 |-> sessionV2 ]
         ELSE [ error     |-> "none",
                heap      |-> [h EXCEPT ![parentRun].child_execution_order =
                                  Max(@, h[run].child_execution_order)],
                runMap    |-> [runMap EXCEPT ![h[run].uuid] = NULL],
                persisted |-> <<>>,
                requests  |-> <<>>,
                tenantId  |-> tenantId,
                sessionV2 |-> sessionV2 ]

\* What the caller of a handler observes: the error it is rejected with
\* ("none": it returned), the run it acted on, whether a hook was invoked,
\* the runs handed to persistRun and the requests sent to the store.
Return(op, result, run, hook, persisted, requests) ==
    lastOp' = [op |-> op, result |-> result, run |-> run, hook |-> hook,
               persisted |-> persisted, requests |-> requests]

\* A start handler that starts the run as a root when its parent is not
\* registered.
HandleStart_OrphanBecomesRoot(type, runId, parentRunId, list, hook) ==
    LET boot     == session = NoSession
        sid      == IF boot THEN loadDefaultSession(list) ELSE session
        requests == IF boot
                    THEN << [endpoint |-> "/sessions?name=default", body |-> Undefined] >>
                    ELSE <<>>
        known    == IF parentRunId = Undefined THEN FALSE
                    ELSE runMap[parentRunId] # NULL
        pid      == IF known THEN parentRunId ELSE Undefined
        eo       == _getExecutionOrder(pid)
        run      == NewRun(type, runId, pid, eo.order, sid)
        st       == _startTrace(run)
        addr     == Len(heap) + 1
        parent   == IF known THEN runMap[parentRunId] ELSE NULL
    IN  /\ session' = sid
        /\ UNCHANGED <<tracerClass, tenantId, exampleId, sessionV2, closed, calls>>
        /\ IF st.error # "none"
           THEN /\ Return("Start", st.error, NULL, FALSE, <<>>, requests)
                /\ UNCHANGED <<heap, runMap, started>>
           ELSE /\ heap' = st.heap
                /\ runMap' = st.runMap
                /\ started' = Append(started,
                       [ parent     |-> parent,
                         sequential |-> \A b \in Addrs :
                                           started[b].parent = parent => b \in closed ])
                /\ Return("Start",
                          IF hook = "throws" THEN "HookFailure" ELSE "none",
                          addr, TRUE, <<>>, requests)

\* handleLLMStart, handleChainStart, handleToolStart: `list` is the store's
\* answer when the default session is loaded, `hook` the start hook.
HandleStart(type, runId, parentRunId, list, hook) ==
    LET boot     == session = NoSession
        sid      == IF boot THEN loadDefaultSession(list) ELSE session
        requests == IF boot
                    THEN << [endpoint |-> "/sessions?name=default", body |-> Undefined] >>
                    ELSE <<>>
        eo       == _getExecutionOrder(parentRunId)
        run      == NewRun(type, runId, parentRunId, eo.order, sid)
        st       == _startTrace(run)
        addr     == Len(heap) + 1
        parent   == IF parentRunId = Undefined THEN NULL ELSE runMap[parentRunId]
    IN  /\ session' = sid
        /\ UNCHANGED <<tracerClass, tenantId, exampleId, sessionV2, closed, calls>>
        /\ IF eo.error # "none"
           THEN /\ Return("Start", eo.error, NULL, FALSE, <<>>, requests)
                /\ UNCHANGED <<heap, runMap, started>>
           ELSE IF st.error # "none"
           THEN /\ Return("Start", st.error, NULL, FALSE, <<>>, requests)
                /\ UNCHANGED <<heap, runMap, started>>
           ELSE /\ heap' = st.heap
                /\ runMap' = st.runMap
                /\ started' = Append(started,
                       [ parent     |-> parent,
                         sequential |-> \A b \in Addrs :
                                           started[b].parent = parent => b \in closed ])
                /\ Return("Start",
                          IF hook = "throws" THEN "HookFailure" ELSE "none",
                          addr, TRUE, <<>>, requests)

handleLLMStart(runId, parentRunId, list, hook) ==
    HandleStart("llm", runId, parentRunId, list, hook)

handleChainStart(runId, parentRunId, list, hook) ==
    HandleStart("chain", runId, parentRunId, list, hook)

handleToolStart(runId, parentRunId, list, hook) ==
    HandleStart("tool", runId, parentRunId, list, hook)

\* The heap after the end handlers (failed = FALSE) or the error handlers
\* (failed = TRUE) have stamped the run.
Stamp(run, failed) ==
    IF failed
    THEN [heap EXCEPT ![run].end_time = DateNow, ![run].error = "err"]
    ELSE [heap EXCEPT ![run].end_time = DateNow, ![run].output = "out"]

\* An end handler that awaits the hook before it stamps the run.
HandleEnd_HookBeforeStamp(type, runId, failed, hook, tenants, upsert, response) ==
    LET run == runMap[runId]
        op  == IF failed THEN "Fail" ELSE "End"
    IN  /\ UNCHANGED <<session, tracerClass, exampleId, started, calls>>
        /\ IF run = NULL \/ heap[run].type # type
           THEN /\ Return(op, "NoSuchOpenRun", NULL, FALSE, <<>>, <<>>)
                /\ UNCHANGED <<heap, runMap, tenantId, sessionV2, closed>>
           ELSE IF hook = "throws"
           THEN /\ Return(op, "HookFailure", run, TRUE, <<>>, <<>>)
                /\ UNCHANGED <<heap, runMap, tenantId, sessionV2, closed>>
           ELSE LET e == _endTrace(Stamp(run, failed), run, tenants, upsert, response) IN
                /\ heap' = e.heap
                /\ runMap' = e.runMap
                /\ tenantId' = e.tenantId
                /\ sessionV2' = e.sessionV2
                /\ closed' = IF e.error = "none" THEN closed \cup {run} ELSE closed
                /\ Return(op, e.error, run, TRUE, e.persisted, e.requests)

\* An end handler that looks the run up but does not compare its type.
HandleEnd_AnyKind(type, runId, failed, hook, tenants, upsert, response) ==
    LET run == runMap[runId]
        op  == IF failed THEN "Fail" ELSE "End"
    IN  /\ UNCHANGED <<session, tracerClass, exampleId, started, calls>>
        /\ IF run = NULL
           THEN /\ Return(op, "NoSuchOpenRun", NULL, FALSE, <<>>, <<>>)
                /\ UNCHANGED <<heap, runMap, tenantId, sessionV2, closed>>
           ELSE IF hook = "throws"
           THEN /\ heap' = Stamp(run, failed)
                /\ Return(op, "HookFailure", run, TRUE, <<>>, <<>>)
                /\ UNCHANGED <<runMap, tenantId, sessionV2, closed>>
           ELSE LET e == _endTrace(Stamp(run, failed), run, tenants, upsert, response) IN
                /\ heap' = e.heap
                /\ runMap' = e.runMap
                /\ tenantId' = e.tenantId
                /\ sessionV2' = e.sessionV2
                /\ closed' = IF e.error = "none" THEN closed \cup {run} ELSE closed
                /\ Return(op, e.error, run, TRUE, e.persisted, e.requests)

\* handle{LLM,Chain,Tool}End (failed = FALSE) and handle{LLM,Chain,Tool}Error
\* (failed = TRUE): `hook` is the end or error hook, the rest the store's
\* answers while the run is persisted.
HandleEnd(type, runId, failed, hook, tenants, upsert, response) ==
    LET run == runMap[runId]
        op  == IF failed THEN "Fail" ELSE "End"
    IN  /\ UNCHANGED <<session, tracerClass, exampleId, started, calls>>
        /\ IF run = NULL \/ heap[run].type # type
           THEN /\ Return(op, "NoSuchOpenRun", NULL, FALSE, <<>>, <<>>)
                /\ UNCHANGED <<heap, runMap, tenantId, sessionV2, closed>>
           ELSE IF hook = "throws"
           THEN /\ heap' = Stamp(run, failed)
                /\ Return(op, "HookFailure", run, TRUE, <<>>, <<>>)
                /\ UNCHANGED <<runMap, tenantId, sessionV2, closed>>
           ELSE LET e == _endTrace(Stamp(run, failed), run, tenants, upsert, response) IN
                /\ heap' = e.heap
                /\ runMap' = e.runMap
                /\ tenantId' = e.tenantId
                /\ sessionV2' = e.sessionV2
                /\ closed' = IF e.error = "none" THEN closed \cup {run} ELSE closed
                /\ Return(op, e.error, run, TRUE, e.persisted, e.requests)

handleLLMEnd(runId, hook, tenants, upsert, response) ==
    HandleEnd("llm", runId, FALSE, hook, tenants, upsert, response)

handleLLMError(runId, hook, tenants, upsert, response) ==
    HandleEnd("llm", runId, TRUE, hook, tenants, upsert, response)

handleChainEnd(runId, hook, tenants, upsert, response) ==
    HandleEnd("chain", runId, FALSE, hook, tenants, upsert, response)

handleChainError(runId, hook, tenants, upsert, response) ==
    HandleEnd("chain", runId, TRUE, hook, tenants, upsert, response)

handleToolEnd(runId, hook, tenants, upsert, response) ==
    HandleEnd("tool", runId, FALSE, hook, tenants, upsert, response)

handleToolError(runId, hook, tenants, upsert, response) ==
    HandleEnd("tool", runId, TRUE, hook, tenants, upsert, response)

\* handleAgentAction that does not look at the run's type.
handleAgentAction_AnyKind(action, runId, hook) ==
    LET run == runMap[runId] IN
    /\ UNCHANGED <<runMap, session, tracerClass, tenantId, exampleId, sessionV2,
                   started, closed, calls>>
    /\ IF run = NULL
       THEN /\ Return("Action", "none", NULL, FALSE, <<>>, <<>>)
            /\ UNCHANGED heap
       ELSE /\ heap' = [heap EXCEPT ![run].actions = Append(@, action)]
            /\ Return("Action",
                      IF hook = "throws" THEN "HookFailure" ELSE "none",
                      run, TRUE, <<>>, <<>>)

\* handleAgentAction: `hook` is the action hook.
handleAgentAction(action, runId, hook) ==
    LET run == runMap[runId] IN
    /\ UNCHANGED <<runMap, session, tracerClass, tenantId, exampleId, sessionV2,
                   started, closed, calls>>
    /\ IF run = NULL \/ heap[run].type # "chain"
       THEN /\ Return("Action", "none", NULL, FALSE, <<>>, <<>>)
            /\ UNCHANGED heap
       ELSE /\ heap' = [heap EXCEPT ![run].actions = Append(@, action)]
            /\ Return("Action",
                      IF hook = "throws" THEN "HookFailure" ELSE "none",
                      run, TRUE, <<>>, <<>>)

(* -------------------------- specifications --------------------------- *)

\* The state after construction; `classes` are the tracer classes and
\* `tenantIds` the tenant configurations considered.
Constructed(classes, tenantIds) ==
    /\ heap = <<>>
    /\ runMap = [id \in AllIds |-> NULL]
    /\ session = NoSession
    /\ tracerClass \in classes
    /\ tenantId \in IF tracerClass = "v2" THEN tenantIds ELSE {Undefined}
    /\ exampleId = IF tracerClass = "v2" THEN "example1" ELSE Undefined
    /\ sessionV2 = Undefined
    /\ lastOp = [op |-> "new", result |-> "none", run |-> NULL, hook |-> FALSE,
                 persisted |-> <<>>, requests |-> <<>>]
    /\ started = <<>>
    /\ closed = {}
    /\ calls = <<>>

\* The answers a call draws: those of S when the request is sent, else one.
Asked(S, sent) == IF sent THEN S ELSE {CHOOSE x \in S : TRUE}

\* The answers of a store that serves every request, and lists a tenant.
TenantsListed == {x \in TenantResponses : x.ok /\ Len(x.body) > 0}
SessionUpserted == {x \in SessionUpsertResponses : x.ok}
RunAccepted == {x \in RunResponses : x.ok}

RECURSIVE SumActions(_, _)
SumActions(h, n) == IF n = 0 THEN 0 ELSE Len(h[n].actions) + SumActions(h, n - 1)

\* Whether ending the run registered as runId submits it, and whether that
\* needs the session and the tenant resolved first.
Submits(runId) ==
    runMap[runId] # NULL /\ heap[runMap[runId]].parent_uuid = Undefined

Upserts(runId) == Submits(runId) /\ tracerClass = "v2" /\ sessionV2 = Undefined

(* Spec: any caller (any identifier, kind and parent, calls in any order);  *)
(* hooks return and the store serves every request.                        *)

Init == Constructed({"legacy", "v2"}, {"tenant0"})

Next ==
    \/ \E runId \in Ids, parentRunId \in Ids \cup {Undefined},
          list \in Asked(SessionListResponses, session = NoSession),
          hook \in {"returns"} :
           /\ Len(heap) < MaxRuns
           /\ \/ handleLLMStart(runId, parentRunId, list, hook)
              \/ handleChainStart(runId, parentRunId, list, hook)
              \/ handleToolStart(runId, parentRunId, list, hook)
    \/ \E runId \in Ids, hook \in {"returns"},
          tenants \in TenantsListed, upsert \in SessionUpserted,
          response \in RunAccepted :
           \/ handleLLMEnd(runId, hook, tenants, upsert, response)
           \/ handleLLMError(runId, hook, tenants, upsert, response)
           \/ handleChainEnd(runId, hook, tenants, upsert, response)
           \/ handleChainError(runId, hook, tenants, upsert, response)
           \/ handleToolEnd(runId, hook, tenants, upsert, response)
           \/ handleToolError(runId, hook, tenants, upsert, response)

Spec == Init /\ [][Next]_vars

(* SpecTree: callers that keep the tree discipline, one trace at a time.   *)
(* A root is started when no run is open; a child is started under an open *)
(* chain or tool run, with an identifier no open run has; a run is ended,  *)
(* with its own kind, once all its children have closed.  The tracer       *)
(* compares identifiers for equality only, and under this discipline no    *)
(* open run names a closed one, so the caller's choice of a fresh          *)
(* identifier is fixed to the first free one.  Hooks return and the store  *)
(* serves every request.                                                   *)

FreshId ==
    RunIds[CHOOSE i \in 1..Len(RunIds) :
              /\ runMap[RunIds[i]] = NULL
              /\ \A j \in 1..(i - 1) : runMap[RunIds[j]] # NULL]

MayParent(parentRunId) ==
    IF parentRunId = Undefined
    THEN \A id \in AllIds : runMap[id] = NULL
    ELSE /\ runMap[parentRunId] # NULL
         /\ heap[runMap[parentRunId]].type \in {"chain", "tool"}

MayEnd(runId, type) ==
    /\ runMap[runId] # NULL
    /\ heap[runMap[runId]].type = type
    /\ \A i \in 1..Len(ChildRuns(heap, runMap[runId])) :
           ChildRuns(heap, runMap[runId])[i] \in closed

TreeStarts(limit, lists) ==
    \E parentRunId \in AllIds \cup {Undefined},
       list \in Asked(lists, session = NoSession) :
        /\ Len(heap) < limit
        /\ MayParent(parentRunId)
        /\ \/ handleLLMStart(FreshId, parentRunId, list, "returns")
           \/ handleChainStart(FreshId, parentRunId, list, "returns")
           \/ handleToolStart(FreshId, parentRunId, list, "returns")

TreeEnds(tenantAnswers, upsertAnswers, runAnswers) ==
    \E runId \in AllIds :
    \E tenants \in Asked(tenantAnswers, Upserts(runId) /\ tenantId = Undefined),
       upsert \in Asked(upsertAnswers, Upserts(runId)),
       response \in Asked(runAnswers, Submits(runId)) :
        \/ MayEnd(runId, "llm") /\ handleLLMEnd(runId, "returns", tenants, upsert, response)
        \/ MayEnd(runId, "chain") /\ handleChainEnd(runId, "returns", tenants, upsert, response)
        \/ MayEnd(runId, "tool") /\ handleToolEnd(runId, "returns", tenants, upsert, response)

InitTree == Constructed({"legacy", "v2"}, {"tenant0"})

NextTree ==
    \/ TreeStarts(MaxTreeRuns, SessionListResponses)
    \/ TreeEnds(TenantsListed, SessionUpserted, RunAccepted)

SpecTree == InitTree /\ [][NextTree]_vars

(* SpecStore: the callers of SpecTree, and a store that answers any        *)
(* request with success or failure and may list no tenant; the tenant id   *)
(* is configured or not.                                                   *)

InitStore == Constructed({"legacy", "v2"}, {Undefined, "tenant0"})

NextStore ==
    \/ TreeStarts(MaxStoreRuns, SessionListResponses)
    \/ TreeEnds(TenantResponses, SessionUpsertResponses, RunResponses)

SpecStore == InitStore /\ [][NextStore]_vars

(* SpecAgent: the callers of SpecTree, who also record agent actions on    *)
(* any identifier at any time; the action hook returns or throws.          *)

InitAgent == Constructed({"legacy"}, {Undefined})

AgentActs ==
    \E action \in AgentActions, runId \in AllIds, hook \in HookOutcomes :
        /\ (runMap[runId] # NULL) => SumActions(heap, Len(heap)) < MaxActions
        /\ handleAgentAction(action, runId, hook)

NextAgent ==
    \/ TreeStarts(MaxAgentRuns, SessionListResponses)
    \/ TreeEnds(TenantsListed, SessionUpserted, RunAccepted)
    \/ AgentActs

SpecAgent == InitAgent /\ [][NextAgent]_vars

(* SpecHook: the callers of SpecTree, who end a run with End or with Fail,  *)
(* call again after a call was rejected, and record one kind of agent      *)
(* action on registered runs; every hook returns or throws.  The store     *)
(* serves every request.                                                   *)

InitHook == Constructed({"legacy"}, {Undefined})

HookStarts ==
    \E parentRunId \in AllIds \cup {Undefined},
       list \in Asked(SessionListResponses, session = NoSession),
       hook \in HookOutcomes :
        /\ Len(heap) < MaxHookRuns
        /\ MayParent(parentRunId)
        /\ \/ handleLLMStart(FreshId, parentRunId, list, hook)
           \/ handleChainStart(FreshId, parentRunId, list, hook)
           \/ handleToolStart(FreshId, parentRunId, list, hook)

HookEnds ==
    \E runId \in AllIds, hook \in HookOutcomes,
       tenants \in TenantsListed, upsert \in SessionUpserted,
       response \in RunAccepted :
        \/ MayEnd(runId, "llm") /\ handleLLMEnd(runId, hook, tenants, upsert, response)
        \/ MayEnd(runId, "llm") /\ handleLLMError(runId, hook, tenants, upsert, response)
        \/ MayEnd(runId, "chain") /\ handleChainEnd(runId, hook, tenants, upsert, response)
        \/ MayEnd(runId, "chain") /\ handleChainError(runId, hook, tenants, upsert, response)
        \/ MayEnd(runId, "tool") /\ handleToolEnd(runId, hook, tenants, upsert, response)
        \/ MayEnd(runId, "tool") /\ handleToolError(runId, hook, tenants, upsert, response)

HookActs ==
    \E action \in Asked(AgentActions, FALSE), runId \in AllIds, hook \in HookOutcomes :
        /\ runMap[runId] # NULL
        /\ SumActions(heap, Len(heap)) < MaxHookActions
        /\ handleAgentAction(action, runId, hook)

NextHook ==
    \/ HookStarts
    \/ HookEnds
    \/ HookActs

SpecHook == InitHook /\ [][NextHook]_vars

(* Overlapping calls.  The handlers are async functions: a call runs until  *)
(* it reaches an await, where another call may run (single thread, no       *)
(* preemption between awaits).  SpecAsync makes up to MaxCalls calls on the *)
(* legacy tracer, each a Start with an identifier of its own or an End or   *)
(* Fail of an identifier no unfinished call is about, and resumes the       *)
(* suspended ones in any order.  Hooks return and the store serves every    *)
(* request.  The awaits are those of the session bootstrap                  *)
(* (index.ts:168-170), of the hooks (186, 197) and of the fetch of          *)
(* persistRun (394-398); `await this._endTrace(run)` of a run with a parent *)
(* reaches no await inside, and nothing follows it in the handler.          *)

InitAsync == Constructed({"legacy"}, {Undefined})

\* A call of a handler: `at` is the await it is suspended at ("done": it has
\* settled), `run` the object it found or made, `requests` what it has sent
\* to the store for persistRun.
Call(op, type, runId, parentRunId, at, result) ==
    [ op |-> op, type |-> type, runId |-> runId, parentRunId |-> parentRunId,
      at |-> at, result |-> result, run |-> NULL, requests |-> <<>> ]

\* The Start calls made so far; the caller names the runs it has started.
Starts == {i \in 1..Len(calls) : calls[i].op = "Start"}

\* The identifier of the next Start: every Start has one of its own.
NextRunId == RunIds[Cardinality(Starts) + 1]

\* No unfinished call is about identifier id.
Idle(id) ==
    \A i \in 1..Len(calls) : calls[i].at # "done" => calls[i].runId # id

\* A start handler from _getExecutionOrder to its `await this.on*Start`,
\* for call k of cs, with the session id sid it has at that point.
StartRuns(cs, k, sid) ==
    LET c      == cs[k]
        eo     == _getExecutionOrder(c.parentRunId)
        run    == NewRun(c.type, c.runId, c.parentRunId, eo.order, sid)
        st     == _startTrace(run)
        parent == IF c.parentRunId = Undefined THEN NULL ELSE runMap[c.parentRunId]
    IN  /\ session' = sid
        /\ UNCHANGED <<tracerClass, tenantId, exampleId, sessionV2, lastOp, closed>>
        /\ IF eo.error # "none"
           THEN /\ calls' = [cs EXCEPT ![k].at = "done", ![k].result = eo.error]
                /\ UNCHANGED <<heap, runMap, started>>
           ELSE IF st.error # "none"
           THEN /\ calls' = [cs EXCEPT ![k].at = "done", ![k].result = st.error]
                /\ UNCHANGED <<heap, runMap, started>>
           ELSE /\ heap' = st.heap
                /\ runMap' = st.runMap
                /\ started' = Append(started,
                       [ parent     |-> parent,
                         sequential |-> \A b \in Addrs :
                                           started[b].parent = parent => b \in closed ])
                /\ calls' = [cs EXCEPT ![k].at = "hook", ![k].run = Len(heap) + 1]

\* handleLLMStart, handleChainStart or handleToolStart is called: it awaits
\* the default session when none is cached, else runs to its hook.
CallStart ==
    \E type \in RunTypes,
       parentRunId \in {calls[i].runId : i \in Starts} \cup {Undefined} :
        LET c == Call("Start", type, NextRunId, parentRunId, "boot", "none") IN
        /\ Len(calls) < MaxCalls
        /\ IF session = NoSession
           THEN /\ calls' = Append(calls, c)
                /\ UNCHANGED <<heap, runMap, session, tracerClass, tenantId,
                               exampleId, sessionV2, lastOp, started, closed>>
           ELSE StartRuns(Append(calls, c), Len(calls) + 1, session)

\* The store has answered the GET of loadDefaultSession: the call caches
\* the session and runs to its hook.
ResumeBooted ==
    \E k \in 1..Len(calls), list \in SessionListResponses :
        /\ calls[k].at = "boot"
        /\ StartRuns(calls, k, loadDefaultSession(list))

\* The hook of a start handler has returned: the call settles.
ResumeStarted ==
    \E k \in 1..Len(calls) :
        /\ calls[k].op = "Start" /\ calls[k].at = "hook"
        /\ calls' = [calls EXCEPT ![k].at = "done"]
        /\ UNCHANGED <<heap, runMap, session, tracerClass, tenantId, exampleId,
                       sessionV2, lastOp, started, closed>>

\* An end or error handler is called: it looks the run up, stamps it and
\* awaits its hook.
CallEnd ==
    \E i \in Starts, failed \in BOOLEAN :
        LET type  == calls[i].type
            runId == calls[i].runId
            run   == runMap[runId]
            op    == IF failed THEN "Fail" ELSE "End"
        IN  /\ Len(calls) < MaxCalls
            /\ Idle(runId)
            /\ UNCHANGED <<runMap, session, tracerClass, tenantId, exampleId,
                           sessionV2, lastOp, started, closed>>
            /\ IF run = NULL \/ heap[run].type # type
               THEN /\ calls' = Append(calls,
                           Call(op, type, runId, Undefined, "done", "NoSuchOpenRun"))
                    /\ UNCHANGED heap
               ELSE /\ heap' = Stamp(run, failed)
                    /\ calls' = Append(calls,
                           [Call(op, type, runId, Undefined, "hook", "none")
                               EXCEPT !.run = run])

\* The hook of an end or error handler has returned: _endTrace.  For a run
\* without parent id, persistRun serializes the run, sends it and awaits
\* the answer; for a run with one, _endTrace runs to its end.
ResumeEnded ==
    \E k \in 1..Len(calls), tenants \in TenantsListed,
       upsert \in SessionUpserted, response \in RunAccepted :
        LET run == calls[k].run IN
        /\ calls[k].op \in {"End", "Fail"} /\ calls[k].at = "hook"
        /\ UNCHANGED <<session, tracerClass, tenantId, exampleId, sessionV2,
                       lastOp, started>>
        /\ IF heap[run].parent_uuid = Undefined
           THEN LET p == persistRun(heap, run, tenants, upsert, response) IN
                /\ calls' = [calls EXCEPT ![k].at = "persist",
                                          ![k].requests = p.requests]
                /\ UNCHANGED <<heap, runMap, closed>>
           ELSE LET e == _endTrace(heap, run, tenants, upsert, response) IN
                /\ heap' = e.heap
                /\ runMap' = e.runMap
                /\ closed' = IF e.error = "none" THEN closed \cup {run} ELSE closed
                /\ calls' = [calls EXCEPT ![k].at = "done", ![k].result = e.error]

\* The store has answered the POST of persistRun: _endTrace removes the run
\* from the registry and the call settles.
ResumePersisted ==
    \E k \in 1..Len(calls) :
        /\ calls[k].at = "persist"
        /\ runMap' = [runMap EXCEPT ![heap[calls[k].run].uuid] = NULL]
        /\ closed' = closed \cup {calls[k].run}
        /\ calls' = [calls EXCEPT ![k].at = "done"]
        /\ UNCHANGED <<heap, session, tracerClass, tenantId, exampleId,
                       sessionV2, lastOp, started>>

NextAsync ==
    \/ CallStart
    \/ ResumeBooted
    \/ ResumeStarted
    \/ CallEnd
    \/ ResumeEnded
    \/ ResumePersisted

SpecAsync == InitAsync /\ [][NextAsync]_vars

(* ------------------------------ claims ------------------------------- *)

\* The parent object a run was started under (NULL for a root).
ParentOf(a) == started[a].parent

\* The children started under object p, in start order.
ChildrenOf(p) == {b \in Addrs : ParentOf(b) = p}

\* N for the Nth child started under its parent.
ChildIndex(a) == Cardinality({b \in ChildrenOf(ParentOf(a)) : b <= a})

IsLeaf(a) == ChildRuns(heap, a) = <<>>

\* The siblings up to a ran one after the other (each started after every
\* earlier one had closed), and those before a have no child.
AfterClosedLeaves(a) ==
    \A b \in ChildrenOf(ParentOf(a)) :
        b <= a => started[b].sequential /\ (b < a => IsLeaf(b))

\* C1 as stated: the Nth child started under a parent has execution
\* order N, however the siblings' End calls interleave.
C1_NthChildHasOrderN ==
    \A a \in Addrs :
        ParentOf(a) # NULL => heap[a].execution_order = ChildIndex(a)

\* C1, amended: a child started under a parent gets the parent's
\* child-execution-order at that moment plus 1.  So the Nth child of a
\* parent whose own order is P gets P + N when the siblings before it ran
\* one after the other and closed, childless, before it started, and a child started while all its
\* earlier siblings are still open gets P + 1 like the first.
C1_OrderIsParentFrontierPlusOne ==
    /\ (lastOp.op = "Start" /\ lastOp.result = "none" /\ ParentOf(lastOp.run) # NULL)
          => heap[lastOp.run].execution_order =
                 heap[ParentOf(lastOp.run)].child_execution_order + 1
    /\ \A a \in Addrs :
          (ParentOf(a) # NULL /\ AfterClosedLeaves(a))
              => heap[a].execution_order =
                     heap[ParentOf(a)].execution_order + ChildIndex(a)
    /\ \A a \in Addrs :
          (ParentOf(a) # NULL
             /\ lastOp.op = "Start" /\ lastOp.result = "none" /\ lastOp.run = a
             /\ \A b \in ChildrenOf(ParentOf(a)) : b < a => b \notin closed)
              => heap[a].execution_order =
                     heap[ParentOf(a)].execution_order + 1

\* A third child has just been started after its two siblings ran one after
\* the other and closed.
C1_Witness ==
    \E a \in Addrs :
        /\ lastOp.op = "Start" /\ lastOp.result = "none" /\ lastOp.run = a
        /\ ParentOf(a) # NULL /\ ChildIndex(a) = 3 /\ AfterClosedLeaves(a)
        /\ heap[a].execution_order = 4

\* C2: a Start of any kind whose parent id is not in the registry fails
\* with ParentNotFound and leaves the registry as it was: the same ids, and
\* every registered run with the same fields and child collections.
C2_MissingParentStartFails ==
    [][\A type \in RunTypes, runId \in Ids, parentRunId \in Ids,
          list \in Asked(SessionListResponses, session = NoSession) :
          LET hook == "returns" IN
          (runMap[parentRunId] = NULL
             /\ HandleStart(type, runId, parentRunId, list, hook))
              => /\ lastOp'.op = "Start"
                 /\ lastOp'.result = "ParentNotFound"
                 /\ ~lastOp'.hook
                 /\ runMap' = runMap
                 /\ heap' = heap]_vars

\* A Start has failed with ParentNotFound while another run is registered.
C2_Witness ==
    /\ lastOp.op = "Start"
    /\ lastOp.result = "ParentNotFound"
    /\ \E id \in Ids : runMap[id] # NULL

\* C3: a Start of any kind whose parent id names an open llm run fails with
\* InvalidParentKind; the new run is not registered and the llm run gains
\* no child.
C3_LlmParentStartFails ==
    [][\A type \in RunTypes, runId \in Ids, parentRunId \in Ids,
          list \in Asked(SessionListResponses, session = NoSession) :
          LET hook == "returns" IN
          (/\ runMap[parentRunId] # NULL
           /\ heap[runMap[parentRunId]].type = "llm"
           /\ HandleStart(type, runId, parentRunId, list, hook))
              => /\ lastOp'.result = "InvalidParentKind"
                 /\ ~lastOp'.hook
                 /\ runMap' = runMap
                 /\ Len(heap') = Len(heap)
                 /\ ChildRuns(heap', runMap[parentRunId]) = <<>>
                 /\ heap' = heap]_vars

\* A Start under an open llm run has failed with InvalidParentKind.
C3_Witness ==
    /\ lastOp.op = "Start"
    /\ lastOp.result = "InvalidParentKind"
    /\ \E id \in Ids : runMap[id] # NULL /\ heap[runMap[id]].type = "llm"

\* C4: an End or Fail of kind K on an id that is not registered, or that is
\* registered with another kind, fails with NoSuchOpenRun and changes
\* neither the registry nor any run (end time, output and error included).
C4_EndOfUnknownOrOtherKindFails ==
    [][\A type \in RunTypes, runId \in Ids, failed \in BOOLEAN,
          tenants \in TenantsListed, upsert \in SessionUpserted,
          response \in RunAccepted :
          LET hook == "returns" IN
          (/\ runMap[runId] = NULL \/ heap[runMap[runId]].type # type
           /\ HandleEnd(type, runId, failed, hook, tenants, upsert, response))
              => /\ lastOp'.result = "NoSuchOpenRun"
                 /\ ~lastOp'.hook
                 /\ lastOp'.persisted = <<>> /\ lastOp'.requests = <<>>
                 /\ runMap' = runMap
                 /\ heap' = heap]_vars

\* An End or Fail has failed with NoSuchOpenRun although every id is
\* registered: the run it named has another kind.
C4_Witness ==
    /\ lastOp.op \in {"End", "Fail"}
    /\ lastOp.result = "NoSuchOpenRun"
    /\ \A id \in Ids : runMap[id] # NULL /\ heap[runMap[id]].end_time = 0

\* Run a was started under run r, directly or transitively.
RECURSIVE IsUnder(_, _)
IsUnder(a, r) ==
    /\ ParentOf(a) # NULL
    /\ (ParentOf(a) = r \/ IsUnder(ParentOf(a), r))

\* The records nested directly in a submitted record.
BodyChildren(body) ==
    IF "child_runs" \in DOMAIN body
    THEN body.child_runs
    ELSE body.child_llm_runs \o body.child_chain_runs \o body.child_tool_runs

\* The runs a submitted record holds, the record's own first.
RECURSIVE BodyRuns(_)
RECURSIVE BodyRunsFrom(_, _)
BodyRuns(body) == <<body.ref>> \o BodyRunsFrom(BodyChildren(body), 1)
BodyRunsFrom(bodies, i) ==
    IF i > Len(bodies) THEN <<>>
    ELSE BodyRuns(bodies[i]) \o BodyRunsFrom(bodies, i + 1)

\* The runs of the tree of run a on the heap, a first.
RECURSIVE TreeRuns(_)
RECURSIVE TreeRunsFrom(_, _)
TreeRuns(a) == <<a>> \o TreeRunsFrom(ChildRuns(heap, a), 1)
TreeRunsFrom(runs, i) ==
    IF i > Len(runs) THEN <<>>
    ELSE TreeRuns(runs[i]) \o TreeRunsFrom(runs, i + 1)

\* Sequence q lists exactly the members of set S, each once.
ListsOnce(q, S) ==
    /\ Len(q) = Cardinality(S)
    /\ {q[i] : i \in 1..Len(q)} = S

\* The last call was an End or Fail of root run r, and it returned.
RootEnded(r) ==
    /\ lastOp.op \in {"End", "Fail"}
    /\ lastOp.result = "none"
    /\ lastOp.run = r
    /\ ParentOf(r) = NULL

\* C5: when the End of a root run has returned, the registry holds neither
\* the root nor any closed run started under it, and the tree handed to
\* persistRun, like the record submitted for it, holds the root and exactly
\* the runs started under it, directly or transitively, each once.
C5_RootEndEvictsAndPersistsItsTree ==
    \A r \in Addrs :
        RootEnded(r) =>
            LET tree == {r} \cup {a \in Addrs : IsUnder(a, r)}
                sent == Submissions(lastOp.requests)
            IN  /\ \A id \in AllIds :
                       /\ runMap[id] # r
                       /\ ~(runMap[id] # NULL /\ IsUnder(runMap[id], r)
                              /\ runMap[id] \in closed)
                /\ lastOp.persisted = <<r>>
                /\ ListsOnce(TreeRuns(r), tree)
                /\ Len(sent) = 1
                /\ ListsOnce(BodyRuns(sent[1].body), tree)

\* The End of a root has returned whose tree has a child of each kind of
\* parent and a grandchild.
C5_Witness ==
    \E r \in Addrs :
        /\ RootEnded(r)
        /\ Cardinality({a \in Addrs : IsUnder(a, r)}) >= 3
        /\ \E a \in Addrs : IsUnder(a, r) /\ ParentOf(a) # r
        /\ \E a \in Addrs : IsUnder(a, r) /\ heap[a].type = "tool"

\* C6: once a chain run has had three children, each started after the
\* one before had ended and each without children of its own, the chain
\* run's child execution order is the execution order of the third child.
C6_ThreeSequentialChildren ==
    \A p \in Addrs :
        LET kids == ChildrenOf(p) IN
        (/\ heap[p].type = "chain"
         /\ Cardinality(kids) = 3
         /\ \A b \in kids : started[b].sequential /\ b \in closed /\ IsLeaf(b))
            => \E third \in kids :
                  /\ \A b \in kids : b <= third
                  /\ heap[p].child_execution_order = heap[third].execution_order

\* A chain run whose third sequential child has just ended.
C6_Witness ==
    \E p \in Addrs :
        /\ heap[p].type = "chain"
        /\ Cardinality(ChildrenOf(p)) = 3
        /\ \A b \in ChildrenOf(p) : started[b].sequential /\ b \in closed /\ IsLeaf(b)
        /\ lastOp.op = "End" /\ lastOp.result = "none"
        /\ ParentOf(lastOp.run) = p
        /\ heap[p].child_execution_order = heap[p].execution_order + 3

\* C7: handleAgentAction on an id that is not registered, or that names a
\* run that is not a chain run, returns without error, changes no run and no
\* registry entry and does not invoke the action hook; on an open chain run
\* it appends the action at the end of that run's actions.
C7_RecordAction ==
    [][\A action \in AgentActions, runId \in AllIds, hook \in HookOutcomes :
          handleAgentAction(action, runId, hook) =>
              LET run == runMap[runId] IN
              IF run = NULL \/ heap[run].type # "chain"
              THEN /\ lastOp'.result = "none"
                   /\ ~lastOp'.hook
                   /\ heap' = heap
                   /\ runMap' = runMap
              ELSE /\ heap'[run].actions = Append(heap[run].actions, action)
                   /\ lastOp'.hook
                   /\ \A a \in Addrs :
                          [heap'[a] EXCEPT !.actions = <<>>]
                              = [heap[a] EXCEPT !.actions = <<>>]
                   /\ runMap' = runMap]_vars

\* An action has just been dropped without a hook call although every
\* run that was started is still open, and an open chain run holds two
\* different actions in the order they were recorded.
C7_Witness ==
    /\ lastOp.op = "Action" /\ ~lastOp.hook /\ lastOp.result = "none"
    /\ \E a \in Addrs : heap[a].type # "chain" /\ runMap[heap[a].uuid] = a
    /\ \E a \in Addrs :
          /\ heap[a].type = "chain" /\ runMap[heap[a].uuid] = a
          /\ Len(heap[a].actions) = 2 /\ heap[a].actions[1] # heap[a].actions[2]

\* C9: when no tenant id is configured and the store lists no tenant, the
\* attempt to persist a root run fails with NoTenantAvailable: no session is
\* upserted, none is cached, and no run is submitted.
C9_NoTenantAvailable ==
    [][\A type \in RunTypes, runId \in AllIds, failed \in BOOLEAN,
          upsert \in SessionUpsertResponses, response \in RunResponses :
          LET none == [ok |-> TRUE, body |-> <<>>] IN
          (/\ tracerClass = "v2"
           /\ tenantId = Undefined
           /\ runMap[runId] # NULL
           /\ heap[runMap[runId]].type = type
           /\ heap[runMap[runId]].parent_uuid = Undefined
           /\ HandleEnd(type, runId, failed, "returns", none, upsert, response))
              => /\ lastOp'.result = "NoTenantAvailable"
                 /\ lastOp'.persisted = <<runMap[runId]>>
                 /\ \A i \in 1..Len(lastOp'.requests) :
                        lastOp'.requests[i].endpoint = "/tenants"
                 /\ Submissions(lastOp'.requests) = <<>>
                 /\ sessionV2' = Undefined
                 /\ tenantId' = Undefined]_vars

\* The End of a root run has failed with NoTenantAvailable after the
\* tenants were asked for.
C9_Witness ==
    /\ tracerClass = "v2"
    /\ lastOp.op = "End"
    /\ lastOp.result = "NoTenantAvailable"
    /\ Len(lastOp.requests) = 1
    /\ sessionV2 = Undefined

\* The identifier a submitted record carries.
BodyId(body) == IF "id" \in DOMAIN body THEN body.id ELSE body.uuid

\* Only chain run "A" (a root) and llm run "B" under it have been started.
OnlyAThenBUnderA ==
    /\ Len(heap) = 2
    /\ heap[1].uuid = "A" /\ heap[1].type = "chain" /\ ParentOf(1) = NULL
    /\ heap[2].uuid = "B" /\ heap[2].type = "llm" /\ ParentOf(2) = 1

\* The scenario has run to its end: B was ended, then A.
ScenarioDone ==
    /\ OnlyAThenBUnderA
    /\ closed = {1, 2}
    /\ lastOp.op = "End" /\ lastOp.run = 1

\* C8: after Start chain A (root), Start llm B under A, End B, End A: A has
\* execution order 1 and B 2, A's llm children are exactly [B], the store
\* has received one submission in all, root A with B as its one nested
\* child, and the registry is empty.
C8_ScenarioRootWithOneChild ==
    OnlyAThenBUnderA =>
        /\ heap[1].execution_order = 1
        /\ heap[2].execution_order = 2
        /\ heap[1].child_llm_runs = <<2>>
        /\ heap[1].child_chain_runs = <<>> /\ heap[1].child_tool_runs = <<>>
        /\ ~ScenarioDone =>
              /\ lastOp.persisted = <<>>
              /\ Submissions(lastOp.requests) = <<>>
        /\ ScenarioDone =>
              LET sent == Submissions(lastOp.requests) IN
              /\ lastOp.result = "none"
              /\ lastOp.persisted = <<1>>
              /\ Len(sent) = 1
              /\ BodyId(sent[1].body) = "A"
              /\ BodyRuns(sent[1].body) = <<1, 2>>
              /\ Len(BodyChildren(sent[1].body)) = 1
              /\ BodyId(BodyChildren(sent[1].body)[1]) = "B"
              /\ \A id \in AllIds : runMap[id] = NULL

\* The fourth call of the scenario has returned.
C8_Witness ==
    /\ ScenarioDone
    /\ heap[1].end_time # 0 /\ heap[2].end_time # 0
    /\ Len(Submissions(lastOp.requests)) = 1

\* The fields of a run other than its child execution order and what the
\* end and error handlers stamp.
Unstamped(run) ==
    [run EXCEPT !.end_time = 0, !.output = Undefined, !.error = Undefined,
                !.child_execution_order = 0]

\* The fields of a run the end and error handlers stamp.
Stamps(run) == <<run.end_time, run.output, run.error>>

\* C10: over any sequence of calls, a run is handed to persistRun only by
\* the End or Fail of a registered run without parent id, which hands over
\* that run, once, and submits it at most once; the End or Fail of a run
\* with a parent id hands nothing over, submits nothing and, besides closing
\* the run, only raises the child execution order of the run its parent id
\* names to its own.
C10_OnlyRootEndPersists ==
    [][/\ lastOp'.persisted # <<>> =>
             /\ lastOp'.op \in {"End", "Fail"}
             /\ lastOp'.persisted = <<lastOp'.run>>
             /\ heap[lastOp'.run].parent_uuid = Undefined
             /\ runMap[heap[lastOp'.run].uuid] = lastOp'.run
             /\ lastOp'.run \notin closed
       /\ Submissions(lastOp'.requests) # <<>> =>
             /\ lastOp'.persisted # <<>>
             /\ Len(Submissions(lastOp'.requests)) = 1
             /\ Submissions(lastOp'.requests)[1].body.ref = lastOp'.run
       /\ \A type \in RunTypes, runId \in Ids, failed \in BOOLEAN,
             tenants \in TenantsListed, upsert \in SessionUpserted,
             response \in RunAccepted :
             (/\ runMap[runId] # NULL
              /\ heap[runMap[runId]].type = type
              /\ heap[runMap[runId]].parent_uuid # Undefined
              /\ runMap[heap[runMap[runId]].parent_uuid] # NULL
              /\ HandleEnd(type, runId, failed, "returns", tenants, upsert, response))
                 => LET run    == runMap[runId]
                        parent == runMap[heap[run].parent_uuid]
                    IN  /\ lastOp'.result = "none"
                        /\ lastOp'.persisted = <<>>
                        /\ lastOp'.requests = <<>>
                        /\ runMap' = [runMap EXCEPT ![runId] = NULL]
                        /\ \A a \in Addrs :
                              /\ Unstamped(heap'[a]) = Unstamped(heap[a])
                              /\ a # run => Stamps(heap'[a]) = Stamps(heap[a])
                              /\ a # parent =>
                                    heap'[a].child_execution_order
                                        = heap[a].child_execution_order
                        /\ heap'[parent].child_execution_order =
                               Max(heap[parent].child_execution_order,
                                   heap[run].child_execution_order)]_vars

\* A run with a parent has just been ended without being handed over, and
\* its parent's child execution order stands above the parent's own order.
C10_Witness ==
    /\ lastOp.op \in {"End", "Fail"} /\ lastOp.result = "none"
    /\ lastOp.persisted = <<>>
    /\ ParentOf(lastOp.run) # NULL
    /\ heap[ParentOf(lastOp.run)].child_execution_order
           > heap[ParentOf(lastOp.run)].execution_order

\* The call that has just returned was an End or Fail that found run a and
\* assigned its end time.
Stamped(a) == lastOp.op \in {"End", "Fail"} /\ lastOp.run = a

\* C11: over any sequence of calls, rejected ones included, a run's end time
\* is assigned exactly once (no End or Fail assigns it to a run that has
\* one), and a run that has an end time is no longer registered once the
\* call that assigned it has returned.
C11_EndTimeSetOnceThenEvicted ==
    [][/\ \A a \in Addrs : heap[a].end_time # 0 => ~Stamped(a)'
       /\ \A a \in 1..Len(heap') :
              heap'[a].end_time # 0 => runMap'[heap'[a].uuid] # a]_vars

\* C12: when the store answers the submission of a root run with a
\* non-success status during End or Fail, the call is rejected with that
\* failure, and the root is no longer registered when it is.
C12_FailedSubmissionSurfacesAfterEviction ==
    [][\A type \in RunTypes, runId \in AllIds, failed \in BOOLEAN,
          tenants \in TenantResponses, upsert \in SessionUpsertResponses :
          LET refused == [ok |-> FALSE] IN
          (/\ runMap[runId] # NULL
           /\ heap[runMap[runId]].type = type
           /\ heap[runMap[runId]].parent_uuid = Undefined
           /\ HandleEnd(type, runId, failed, "returns", tenants, upsert, refused)
           /\ Submissions(lastOp'.requests) # <<>>)
              => /\ lastOp'.result = "TransportFailure"
                 /\ runMap'[runId] = NULL]_vars

\* The reference example ids of the records nested in a converted run, at
\* every depth.
RECURSIVE NestedExampleIds(_, _)
NestedExampleIds(bodies, i) ==
    IF i > Len(bodies) THEN <<>>
    ELSE <<bodies[i].reference_example_id>>
             \o NestedExampleIds(bodies[i].child_runs, 1)
             \o NestedExampleIds(bodies, i + 1)

\* The records the v2 tracer has just submitted.
SubmittedV2 ==
    IF tracerClass = "v2" THEN Submissions(lastOp.requests) ELSE <<>>

\* C13 as stated: every node of a converted tree, the root and every nested
\* child at every depth, carries the example id configured on the tracer.
C13_EveryNodeCarriesExampleId ==
    \A i \in 1..Len(SubmittedV2) :
        LET body == SubmittedV2[i].body
            ids  == NestedExampleIds(body.child_runs, 1)
        IN  /\ body.reference_example_id = exampleId
            /\ \A k \in 1..Len(ids) : ids[k] = exampleId

\* C13, amended: the root of a converted tree carries the example id
\* configured on the tracer, and every nested child, at every depth, carries
\* none.
C13_OnlyRootCarriesExampleId ==
    \A i \in 1..Len(SubmittedV2) :
        LET body == SubmittedV2[i].body
            ids  == NestedExampleIds(body.child_runs, 1)
        IN  /\ body.reference_example_id = exampleId
            /\ \A k \in 1..Len(ids) : ids[k] = Undefined

\* A tree with a child and a grandchild has been converted and submitted.
C13_Witness ==
    /\ Len(SubmittedV2) = 1
    /\ \E k \in 1..Len(SubmittedV2[1].body.child_runs) :
           SubmittedV2[1].body.child_runs[k].child_runs # <<>>

\* What a call is rejected with when its hook throws.
HookResult(hook) == IF hook = "throws" THEN "HookFailure" ELSE "none"

\* The child collection of a run that holds the runs of a type.
ChildRunsOfType(run, type) ==
    IF type = "llm" THEN run.child_llm_runs
    ELSE IF type = "chain" THEN run.child_chain_runs
    ELSE run.child_tool_runs

\* C14: each hook is invoked after the state change of its call and awaited
\* before the call returns, so that a hook that throws rejects the call and
\* leaves the change in place.  Start hook: the run is registered and is
\* the last of its parent's collection of its type.  End and error hook:
\* the end time and the output, or the error, are set, and the run has not
\* yet been closed.  Action hook: the action is the last of the run's.
C14_HooksFollowTheStateChange ==
    [][/\ lastOp'.op = "Start" =>
          \A type \in RunTypes, parentRunId \in AllIds \cup {Undefined},
             list \in Asked(SessionListResponses, session = NoSession),
             hook \in HookOutcomes :
             (/\ MayParent(parentRunId)
              /\ HandleStart(type, FreshId, parentRunId, list, hook))
                 => LET a == Len(heap) + 1 IN
                    /\ lastOp'.hook /\ lastOp'.run = a
                    /\ lastOp'.result = HookResult(hook)
                    /\ runMap'[FreshId] = a
                    /\ parentRunId # Undefined =>
                          LET kids == ChildRunsOfType(heap'[runMap[parentRunId]], type)
                          IN  kids = Append(ChildRunsOfType(heap[runMap[parentRunId]], type), a)
       /\ lastOp'.op \in {"End", "Fail"} =>
          \A type \in RunTypes, runId \in AllIds, failed \in BOOLEAN,
             hook \in HookOutcomes, tenants \in TenantsListed,
             upsert \in SessionUpserted, response \in RunAccepted :
             (/\ MayEnd(runId, type)
              /\ HandleEnd(type, runId, failed, hook, tenants, upsert, response))
                 => LET a == runMap[runId] IN
                    /\ lastOp'.hook /\ lastOp'.run = a
                    /\ lastOp'.result = HookResult(hook)
                    /\ heap'[a].end_time = DateNow
                    /\ IF failed THEN heap'[a].error = "err"
                                 ELSE heap'[a].output = "out"
                    /\ hook = "throws" =>
                          /\ heap' = Stamp(a, failed)
                          /\ runMap' = runMap
                          /\ lastOp'.persisted = <<>>
       /\ lastOp'.op = "Action" =>
          \A action \in AgentActions, runId \in AllIds, hook \in HookOutcomes :
             (/\ runMap[runId] # NULL
              /\ heap[runMap[runId]].type = "chain"
              /\ handleAgentAction(action, runId, hook))
                 => LET a == runMap[runId] IN
                    /\ lastOp'.hook /\ lastOp'.run = a
                    /\ lastOp'.result = HookResult(hook)
                    /\ heap'[a].actions = Append(heap[a].actions, action)]_vars

\* A child's start hook, its error hook and its parent's action hook have
\* thrown: the child is registered under its parent and stamped with the
\* error, the action is recorded, and the last call was rejected.
C14_Witness ==
    /\ lastOp.result = "HookFailure"
    /\ \E a \in Addrs :
          /\ ParentOf(a) # NULL
          /\ runMap[heap[a].uuid] = a
          /\ heap[a].end_time # 0 /\ heap[a].error = "err"
          /\ heap[ParentOf(a)].actions # <<>>

\* Run a is registered: it is the open run its identifier names.
IsOpen(a) == runMap[heap[a].uuid] = a

\* C15 as stated: under one parent, a child started later has a strictly
\* larger execution order than every sibling started earlier, whether or not
\* that sibling had ended when the later one started.
C15_LaterSiblingStrictlyLarger ==
    \A a, b \in Addrs :
        (a < b /\ ParentOf(a) # NULL /\ ParentOf(a) = ParentOf(b))
            => heap[a].execution_order < heap[b].execution_order

\* C15, amended: under one parent, a child started later has an execution
\* order at least that of every sibling started earlier, and strictly
\* larger than that of every earlier sibling that had ended when the later
\* one started; a sibling that is still open may share its order.
C15_LaterSiblingNotSmaller ==
    [][(lastOp'.op = "Start" /\ Len(heap') = Len(heap) + 1) =>
          LET b == Len(heap')
              p == started'[b].parent
          IN  p # NULL =>
                 \A a \in ChildrenOf(p) :
                     /\ heap[a].execution_order <= heap'[b].execution_order
                     /\ a \in closed =>
                           heap[a].execution_order < heap'[b].execution_order]_vars

\* A third child has just been started: it is above its sibling that had
\* ended and level with its sibling that is still open.
C15_Witness ==
    /\ lastOp.op = "Start" /\ lastOp.run = Len(heap)
    /\ \E a1, a2 \in ChildrenOf(ParentOf(Len(heap))) :
          /\ ParentOf(Len(heap)) # NULL
          /\ a1 \in closed
          /\ heap[a1].execution_order < heap[Len(heap)].execution_order
          /\ a2 # Len(heap) /\ IsOpen(a2)
          /\ heap[a2].execution_order = heap[Len(heap)].execution_order

\* The highest of a non-empty set of numbers.
Highest(S) == CHOOSE n \in S : \A m \in S : m <= n

\* Run d is run r, or was started under r and has closed together with
\* every run between it and r.
RECURSIVE FoldedInto(_, _)
FoldedInto(d, r) ==
    \/ d = r
    \/ /\ ParentOf(d) # NULL
       /\ d \in closed
       /\ FoldedInto(ParentOf(d), r)

\* C16 as stated: the child execution order of an open run is the highest
\* execution order among the run and all runs started under it, directly
\* or transitively, open or closed.
C16_FrontierCountsAllDescendants ==
    \A r \in Addrs :
        IsOpen(r) =>
            heap[r].child_execution_order =
                Highest({heap[d].execution_order :
                            d \in {r} \cup {a \in Addrs : IsUnder(a, r)}})

\* C16, amended: the child execution order of an open run is the highest
\* execution order among the run and those runs under it that have closed
\* together with every run between them and it; a child that is still
\* open, and what is under it, does not count yet.
C16_FrontierCountsClosedDescendants ==
    \A r \in Addrs :
        IsOpen(r) =>
            heap[r].child_execution_order =
                Highest({heap[d].execution_order :
                            d \in {a \in Addrs : FoldedInto(a, r)}})

\* An open run has a closed child with a closed child of its own, counted,
\* and an open child above them, not counted.
C16_Witness ==
    \E r, c, g, o \in Addrs :
        /\ IsOpen(r) /\ IsOpen(o)
        /\ ParentOf(c) = r /\ ParentOf(g) = c /\ ParentOf(o) = r
        /\ c \in closed /\ g \in closed
        /\ heap[r].child_execution_order = heap[g].execution_order
        /\ heap[o].execution_order > heap[r].child_execution_order

\* C17: an End or Fail of a run whose parent was closed first is rejected
\* with ParentNotFound, and the run is no longer registered afterwards.
C17_OrphanEndFailsAndEvicts ==
    [][\A type \in RunTypes, runId \in AllIds, failed \in BOOLEAN,
          tenants \in TenantsListed, upsert \in SessionUpserted,
          response \in RunAccepted :
          (/\ runMap[runId] # NULL
           /\ heap[runMap[runId]].type = type
           /\ heap[runMap[runId]].parent_uuid # Undefined
           /\ runMap[heap[runMap[runId]].parent_uuid] = NULL
           /\ HandleEnd(type, runId, failed, "returns", tenants, upsert,
                        response))
              => /\ lastOp'.result = "ParentNotFound"
                 /\ runMap'[runId] = NULL]_vars

\* C19: over any sequence of calls, rejected ones included, no run ever
\* holds both an error message and a success payload (the response, outputs
\* or output of its type, the field `output` here).
C19_ErrorExcludesPayload ==
    \A a \in Addrs :
        ~(heap[a].error # Undefined /\ heap[a].output # Undefined)

\* C20: over the whole lifetime of every run, its child execution order
\* never decreases and is at least its execution order, and its execution
\* order never changes after the Start that assigned it.
C20_FrontierOnlyGrows ==
    [][\A a \in 1..Len(heap') :
          /\ heap'[a].child_execution_order >= heap'[a].execution_order
          /\ a \in Addrs =>
                /\ heap'[a].child_execution_order >= heap[a].child_execution_order
                /\ heap'[a].execution_order = heap[a].execution_order]_vars

\* A child has just ended whose child execution order is below the one its
\* open parent already had from another child: the parent kept the higher.
C20_Witness ==
    /\ lastOp.op = "End" /\ lastOp.result = "none"
    /\ lastOp.run \in closed
    /\ ParentOf(lastOp.run) # NULL
    /\ IsOpen(ParentOf(lastOp.run))
    /\ heap[lastOp.run].child_execution_order
           < heap[ParentOf(lastOp.run)].child_execution_order
    /\ heap[ParentOf(lastOp.run)].child_execution_order
           > heap[ParentOf(lastOp.run)].execution_order

\* The state the calls act on: the run objects, the registry and the bodies
\* submitted to the store.
TracerState(h, m, sent) == [heap |-> h, runMap |-> m, sent |-> sent]

\* A start handler run from its first line to its last on state st (the
\* session id is 1 whatever the store answers, see loadDefaultSession).
SeqStart(st, c) ==
    LET h         == st.heap
        parentRun == IF c.parentRunId = Undefined THEN NULL
                     ELSE st.runMap[c.parentRunId]
        addr      == Len(h) + 1
    IN  IF c.parentRunId = Undefined
        THEN [st EXCEPT
                 !.heap = Append(h, NewRun(c.type, c.runId, c.parentRunId, 1, 1)),
                 !.runMap = [@ EXCEPT ![c.runId] = addr]]
        ELSE IF parentRun = NULL \/ h[parentRun].type = "llm"
        THEN st
        ELSE [st EXCEPT
                 !.heap = _addChildRun(
                              Append(h, NewRun(c.type, c.runId, c.parentRunId,
                                         h[parentRun].child_execution_order + 1, 1)),
                              parentRun, addr, c.type),
                 !.runMap = [@ EXCEPT ![c.runId] = addr]]

\* An end or error handler run from its first line to its last on state st.
SeqEnd(st, c) ==
    LET run == st.runMap[c.runId] IN
    IF run = NULL \/ st.heap[run].type # c.type
    THEN st
    ELSE LET h == IF c.op = "Fail"
                  THEN [st.heap EXCEPT ![run].end_time = DateNow, ![run].error = "err"]
                  ELSE [st.heap EXCEPT ![run].end_time = DateNow, ![run].output = "out"]
             parentRun == IF h[run].parent_uuid = Undefined THEN NULL
                          ELSE st.runMap[h[run].parent_uuid]
         IN  IF h[run].parent_uuid = Undefined
             THEN [ heap   |-> h,
                    runMap |-> [st.runMap EXCEPT ![c.runId] = NULL],
                    sent   |-> st.sent \cup {Serialize(h, run)} ]
             ELSE IF parentRun = NULL
             THEN [st EXCEPT !.heap = h]
             ELSE [st EXCEPT
                      !.heap = [h EXCEPT ![parentRun].child_execution_order =
                                   Max(@, h[run].child_execution_order)],
                      !.runMap = [@ EXCEPT ![c.runId] = NULL]]

SeqApply(st, c) == IF c.op = "Start" THEN SeqStart(st, c) ELSE SeqEnd(st, c)

\* The calls run one at a time, each to its end, in the order f.
RECURSIVE Replay(_, _, _)
Replay(st, f, i) ==
    IF i > Len(calls) THEN st ELSE Replay(SeqApply(st, calls[f[i]]), f, i + 1)

\* The orders the calls made can be run in.
Orders ==
    {f \in [1..Len(calls) -> 1..Len(calls)] :
        \A i, j \in 1..Len(calls) : i # j => f[i] # f[j]}

\* A submitted body without the addresses of the objects it was made from.
RECURSIVE Tree(_)
Tree(body) ==
    [ uuid                  |-> body.uuid,
      parent_uuid           |-> body.parent_uuid,
      type                  |-> body.type,
      end_time              |-> body.end_time,
      execution_order       |-> body.execution_order,
      child_execution_order |-> body.child_execution_order,
      output                |-> body.output,
      error                 |-> body.error,
      child_llm_runs        |->
          [i \in 1..Len(body.child_llm_runs) |-> Tree(body.child_llm_runs[i])],
      child_chain_runs      |->
          [i \in 1..Len(body.child_chain_runs) |-> Tree(body.child_chain_runs[i])],
      child_tool_runs       |->
          [i \in 1..Len(body.child_tool_runs) |-> Tree(body.child_tool_runs[i])] ]

\* The identifiers of the runs in a child collection.
Uuids(h, children) == [i \in 1..Len(children) |-> h[children[i]].uuid]

\* What C18 compares: the registered identifiers, each run's orders and child
\* collections, and the trees submitted.
Outcome(st) ==
    [ registry |-> {id \in AllIds : st.runMap[id] # NULL},
      runs     |-> { [ uuid                  |-> st.heap[a].uuid,
                       execution_order       |-> st.heap[a].execution_order,
                       child_execution_order |-> st.heap[a].child_execution_order,
                       child_llm_runs   |-> Uuids(st.heap, st.heap[a].child_llm_runs),
                       child_chain_runs |-> Uuids(st.heap, st.heap[a].child_chain_runs),
                       child_tool_runs  |-> Uuids(st.heap, st.heap[a].child_tool_runs) ] :
                     a \in 1..Len(st.heap) },
      persisted |-> {Tree(body) : body \in st.sent} ]

\* Every call made has settled.
Quiescent == \A k \in 1..Len(calls) : calls[k].at = "done"

\* The state the overlapping calls have produced.
Reached ==
    TracerState(heap, runMap,
                {calls[k].requests[1].body :
                    k \in {i \in 1..Len(calls) : calls[i].requests # <<>>}})

\* C18: when calls about different run ids have overlapped at their awaits
\* and all have settled, the registry, every run's execution order and
\* child execution order, every child collection and the trees submitted
\* are those that running the same calls one at a time, in some order,
\* produces.
C18_OverlapEqualsSomeSequentialOrder ==
    Quiescent =>
        \E f \in Orders :
            Outcome(Replay(TracerState(<<>>, [id \in AllIds |-> NULL], {}), f, 1))
                = Outcome(Reached)

\* SeqStart and SeqEnd are the handlers: every call of a start handler, and
\* of an end or error handler of the legacy tracer, whose hook returns
\* leaves the run objects and the registry they compute, and submits what
\* they submit.
SeqApplyIsTheHandlers ==
    [][/\ \A type \in RunTypes, runId \in AllIds,
             parentRunId \in AllIds \cup {Undefined},
             list \in Asked(SessionListResponses, session = NoSession) :
             HandleStart(type, runId, parentRunId, list, "returns") =>
                LET st == SeqStart(TracerState(heap, runMap, {}),
                              Call("Start", type, runId, parentRunId, "done", "none"))
                IN  heap' = st.heap /\ runMap' = st.runMap
       /\ \A type \in RunTypes, runId \in AllIds, failed \in BOOLEAN,
             tenants \in TenantsListed, upsert \in SessionUpserted,
             response \in RunAccepted :
             (/\ tracerClass = "legacy"
              /\ HandleEnd(type, runId, failed, "returns", tenants, upsert,
                           response)) =>
                LET st  == SeqEnd(TracerState(heap, runMap, {}),
                               Call(IF failed THEN "Fail" ELSE "End", type, runId,
                                    Undefined, "done", "none"))
                    sub == Submissions(lastOp'.requests)
                IN  /\ heap' = st.heap /\ runMap' = st.runMap
                    /\ st.sent = {sub[i].body : i \in 1..Len(sub)}]_vars

\* How many times run a is in a child collection.
Occurrences(a, children) ==
    Cardinality({i \in 1..Len(children) : children[i] = a})

\* C21: a start handler looks its parent up, appends the run to the
\* parent's collection and registers it without reaching an await, so in
\* every state another call can run in, with calls of others suspended at
\* their awaits or not, each registered run with a parent id is once in the
\* collection of its type of the run its parent id named when it was
\* started, and in no other child collection of any run.
C21_RegisteredChildIsInItsParentOnce ==
    \A a \in Addrs :
        (IsOpen(a) /\ heap[a].parent_uuid # Undefined) =>
            /\ ParentOf(a) # NULL
            /\ heap[ParentOf(a)].uuid = heap[a].parent_uuid
            /\ \A p \in Addrs, type \in RunTypes :
                  Occurrences(a, ChildRunsOfType(heap[p], type)) =
                      IF p = ParentOf(a) /\ type = heap[a].type THEN 1 ELSE 0

\* A start handler has registered a run under a parent and is suspended at
\* its hook while another call, an End that has sent its run to the store,
\* is suspended too.
C21_Witness ==
    \E k, j \in 1..Len(calls) :
        /\ calls[k].op = "Start" /\ calls[k].at = "hook"
        /\ IsOpen(calls[k].run)
        /\ heap[calls[k].run].parent_uuid # Undefined
        /\ calls[j].at = "persist"

====
